---- MODULE Spec2Model ----
(***************************************************************************)
(* WalletWatcher (src/src/App.tsx, the App component of lines 231-520):    *)
(* the view/controller state machine, the resolver, the token balance      *)
(* fetcher and the ENS classifier.                                         *)
(*                                                                         *)
(* Text is a sequence of one-character strings.  An optional value         *)
(* (string | null, WalletInfo | null) is a tuple: <<>> is null, <<v>> is   *)
(* the value v.  One step of the model is one task of the event loop: a    *)
(* UI event or the settling of one RPC call, together with every           *)
(* continuation that runs before the next await suspends.  event names the *)
(* task that ran last.  A finished invocation of handleSubmit is kept, as  *)
(* it ended, until the next UI event.                                      *)
(***************************************************************************)
EXTENDS Integers, Sequences, FiniteSets, TLC

VARIABLES walletInput, isLoading, error, walletInfo, subs, event, tk, name, classified

vars == <<walletInput, isLoading, error, walletInfo, subs, event, tk, name, classified>>

uiVars == <<walletInput, isLoading, error, walletInfo, subs, event>>

(* ---------------------------- bounds ----------------------------------- *)

\* longest text typed into the input box
MaxInputLen == 2
\* longest token address handed to getTokenBalance on its own
MaxTokenLen == 2
\* longest name handed to the classifier on its own
MaxNameLen == 4
\* handleSubmit invocations that can be in flight at once
MaxSubs == 2

(* ---------------------------- text ------------------------------------- *)

None == <<>>

Some(v) == <<v>>

\* " " is whitespace, "." the dot, "a"/"A" one hex digit in its two cases,
\* "g" a character that is no hex digit
Alphabet == {" ", ".", "a", "A", "g"}

\* the characters typed into the input box
InputAlphabet == {" ", ".", "a", "g"}

NameAlphabet == {".", "e", "t", "h", "x"}

TextsOver(chars, n) == UNION {[1..k -> chars] : k \in 0..n}

DotEth == <<".", "e", "t", "h">>

includes(s, c) == \E i \in 1..Len(s) : s[i] = c

endsWith(s, suffix) ==
    /\ Len(s) >= Len(suffix)
    /\ SubSeq(s, Len(s) - Len(suffix) + 1, Len(s)) = suffix

RECURSIVE trimStart(_)
trimStart(s) == IF s # <<>> /\ Head(s) = " " THEN trimStart(Tail(s)) ELSE s

RECURSIVE trimEnd(_)
trimEnd(s) ==
    IF s # <<>> /\ s[Len(s)] = " " THEN trimEnd(SubSeq(s, 1, Len(s) - 1)) ELSE s

trim(s) == trimEnd(trimStart(s))

(* ---------------------------- classifier ------------------------------- *)

isENSName_suffixOnly(input) == includes(input, ".") /\ endsWith(input, DotEth)

isENSName(input) ==
    includes(input, ".") /\ (endsWith(input, DotEth) \/ includes(input, "."))

(* ---------------------- ethers address helpers ------------------------- *)

isHex(c) == c \in {"a", "A"}

\* the checksummed form: the case of every digit is fixed by its position
checksumCase(s) == [i \in 1..Len(s) |-> IF i % 2 = 1 THEN "A" ELSE "a"]

\* getAddress accepts all-lower-case, all-upper-case and correctly
\* checksummed text of hex digits, and throws on everything else
getAddressAccepts(s) ==
    /\ Len(s) > 0
    /\ \A i \in 1..Len(s) : isHex(s[i])
    /\ \/ \A i \in 1..Len(s) : s[i] = "a"
       \/ \A i \in 1..Len(s) : s[i] = "A"
       \/ s = checksumCase(s)

getAddress(s) == checksumCase(s)

isAddress(s) == getAddressAccepts(s)

(* ---------------------- RPC results the model draws --------------------- *)

\* messages of the errors an RPC call rejects with ("" : no message)
ErrMessages == {"Network error", ""}

\* addresses forward resolution returns
ResolvedAddrs == {<<"A">>, <<"a", "a">>}

\* names reverse resolution returns
LookupNames == {<<"g", ".", "g">>}

\* smallest-unit amounts getBalance returns
WeiAmounts == {0, 25}

\* smallest-unit amounts balanceOf returns
TokenAmounts == {25}

DecimalsValues == {1}

Symbols == {"TKN"}

ReadNames == {"balanceOf", "decimals", "symbol"}

ReadValues(r) ==
    CASE r = "balanceOf" -> TokenAmounts
      [] r = "decimals" -> DecimalsValues
      [] r = "symbol" -> Symbols

(* ---------------------- ethers formatting ------------------------------ *)

RECURSIVE pow10(_)
pow10(n) == IF n = 0 THEN 1 ELSE 10 * pow10(n - 1)

\* the decimal string of raw / 10^decimals: whole part, fraction digits
formatUnits(raw, decimals) ==
    [whole |-> raw \div pow10(decimals),
     frac |-> raw % pow10(decimals),
     digits |-> decimals]

\* formatUnits(wei, 18), for the amounts below 10^18 the model draws
formatEther(wei) == [whole |-> 0, frac |-> wei, digits |-> 18]

(* ---------------------- token balance fetcher -------------------------- *)

PendingRead == [st |-> "pending", val |-> None]

UnissuedRead == [st |-> "unissued", val |-> None]

\* the error object carrying the checksummed address where there is one
tokenError_canonical(tokenAddress) ==
    [address |-> IF getAddressAccepts(tokenAddress)
                 THEN getAddress(tokenAddress) ELSE tokenAddress,
     balance |-> None, error |-> TRUE]

\* the object returned by both catch blocks of getTokenBalance
tokenError(tokenAddress) ==
    [address |-> tokenAddress, balance |-> None, error |-> TRUE]

tokenSuccess(checksummed, reads) ==
    [symbol |-> reads["symbol"].val[1],
     address |-> checksummed,
     balance |-> Some(formatUnits(reads["balanceOf"].val[1], reads["decimals"].val[1])),
     decimals |-> reads["decimals"].val[1]]

\* getTokenBalance up to its await: the checksum step, then the three reads
\* issued together.  result is the value the returned promise resolved with,
\* None while it is pending.
getTokenBalance(walletAddress, tokenAddress) ==
    IF ~getAddressAccepts(tokenAddress)
    THEN [tokenAddress |-> tokenAddress, wallet |-> walletAddress,
          contract |-> None,
          reads |-> [r \in ReadNames |-> UnissuedRead],
          result |-> Some(tokenError(tokenAddress)), rejected |-> FALSE]
    ELSE [tokenAddress |-> tokenAddress, wallet |-> walletAddress,
          contract |-> Some(getAddress(tokenAddress)),
          reads |-> [r \in ReadNames |-> PendingRead],
          result |-> None, rejected |-> FALSE]

\* one contract read of a pending fetch resolves with v: Promise.all resolves
\* when it was the last of the three, and the function returns the balance
readResolves(f, r, v) ==
    LET reads == [f.reads EXCEPT ![r] = [st |-> "ok", val |-> Some(v)]]
    IN  [f EXCEPT !.reads = reads,
                  !.result = IF \A q \in ReadNames : reads[q].st = "ok"
                             THEN Some(tokenSuccess(f.contract[1], reads))
                             ELSE None]

\* without the outer catch the rejection reaches the caller
readRejects_uncaught(f, r) ==
    [f EXCEPT !.reads[r] = [st |-> "fail", val |-> None], !.rejected = TRUE]

\* without a rejection handler the fetch never settles
readRejects_lost(f, r) ==
    [f EXCEPT !.reads[r] = [st |-> "fail", val |-> None]]

\* one contract read of a pending fetch rejects: Promise.all rejects at once
\* and the outer catch returns the error object
readRejects(f, r) ==
    [f EXCEPT !.reads[r] = [st |-> "fail", val |-> None],
              !.result = Some(tokenError(f.tokenAddress))]

fetchPending(f) == f.result = None /\ ~f.rejected

NoFetch ==
    [tokenAddress |-> <<>>, wallet |-> <<>>, contract |-> None,
     reads |-> [r \in ReadNames |-> UnissuedRead],
     result |-> None, rejected |-> FALSE]

(* ---------------------- view / controller ------------------------------ *)

TOKENS ==
    << [address |-> <<"A", "a">>, name |-> "Tether"],
       [address |-> <<"A", "a", "A">>, name |-> "USD Coin"] >>

EmptyInputMsg == "Please enter a wallet address or ENS Name"

InvalidAddressMsg == "Please enter a valid ETH wallet address or ENS name"

UnresolvedMsg == "ENS name could not be resolved"

FailedMsg == "Failed to fetch wallet information. Please try again later"

RpcNames == {"resolveName", "lookupAddress", "getBalance"} \cup ReadNames

CallNames == RpcNames \cup {"isAddress"}

\* one invocation of handleSubmit: where it is suspended, its locals, the
\* order in which its token fetches completed, the error thrown inside the
\* resolver, the error its catch block received and the calls it has issued
IdleSub ==
    [pc |-> "idle", input |-> <<>>, address |-> None, ensName |-> None,
     balance |-> None, fetches |-> <<>>, order |-> <<>>,
     thrown |-> None, caught |-> None,
     calls |-> [c \in CallNames |-> 0]]

InFlight(s) == s.pc \notin {"idle", "done"}

Texts == TextsOver(InputAlphabet, MaxInputLen)

buttonLabel == IF isLoading THEN "Checking..." ELSE "Check Wallet"

\* the controls rendered without the disabled attribute
controlsEnabled_always == TRUE

\* the input and the submit button are rendered with disabled={isLoading}
controlsEnabled == ~isLoading

\* the three conditional blocks of the render
errorShown == error # ""

walletPanelShown == walletInfo # None /\ ~(error # "")

tokenPanelShown == walletInfo # None /\ Len(walletInfo[1].tokenBalances) > 0

\* the message set by the catch block of handleSubmit
errorMessage(caught) == FailedMsg

handleAddressChange_keepResult(value) ==
    /\ walletInput' = value
    /\ error' = IF error # "" THEN "" ELSE error
    /\ UNCHANGED <<walletInfo, isLoading>>

handleAddressChange(value) ==
    /\ walletInput' = value
    /\ error' = IF error # "" THEN "" ELSE error
    /\ walletInfo' = IF walletInfo # None THEN None ELSE walletInfo
    /\ UNCHANGED isLoading

\* the token results in the order in which the fetches completed
snapshot_completionOrder(s) ==
    [address |-> s.address[1],
     ensName |-> s.ensName,
     balance |-> s.balance[1],
     tokenBalances |-> [j \in 1..Len(s.order) |-> s.fetches[s.order[j]].result[1]]]

\* the snapshot published without waiting for the token fetches
snapshot_noTokens(s) ==
    [address |-> s.address[1],
     ensName |-> s.ensName,
     balance |-> s.balance[1],
     tokenBalances |-> <<>>]

\* the snapshot handleSubmit hands to setWalletInfo
snapshot(s) ==
    [address |-> s.address[1],
     ensName |-> s.ensName,
     balance |-> s.balance[1],
     tokenBalances |-> [k \in 1..Len(s.fetches) |-> s.fetches[k].result[1]]]

\* handleSubmit after an await: s is the invocation as its continuation left
\* it, either suspended at the next await or finished.  A finished one has
\* run the catch block (caught set) or setWalletInfo, and then the finally.
resume_keepLoading(i, s) ==
    /\ subs' = [subs EXCEPT ![i] = s]
    /\ IF s.pc = "done"
       THEN /\ IF s.caught # None
               THEN error' = errorMessage(s.caught[1]) /\ UNCHANGED walletInfo
               ELSE walletInfo' = Some(snapshot(s)) /\ UNCHANGED error
            /\ isLoading' = (s.caught # None)
       ELSE UNCHANGED <<error, walletInfo, isLoading>>
    /\ UNCHANGED walletInput

resume(i, s) ==
    /\ subs' = [subs EXCEPT ![i] = s]
    /\ IF s.pc = "done"
       THEN /\ IF s.caught # None
               THEN error' = errorMessage(s.caught[1]) /\ UNCHANGED walletInfo
               ELSE walletInfo' = Some(snapshot(s)) /\ UNCHANGED error
            /\ isLoading' = FALSE
       ELSE UNCHANGED <<error, walletInfo, isLoading>>
    /\ UNCHANGED walletInput

issue(s, c) == [s EXCEPT !.calls[c] = @ + 1]

throw(s, message) == [s EXCEPT !.pc = "done", !.caught = Some(message)]

\* the reverse lookup issued before the address is validated
resolveAddressAndENS_lookupFirst(s) ==
    IF isENSName(s.input)
    THEN [issue(s, "resolveName") EXCEPT !.pc = "resolveName"]
    ELSE IF ~isAddress(trim(s.input))
         THEN [issue(issue(s, "isAddress"), "lookupAddress") EXCEPT
                  !.pc = "resolveThrown", !.thrown = Some(InvalidAddressMsg)]
         ELSE [issue(issue(s, "isAddress"), "lookupAddress") EXCEPT
                  !.pc = "lookupAddress",
                  !.address = Some(getAddress(trim(s.input)))]

\* resolveAddressAndENS up to its first await
resolveAddressAndENS(s) ==
    IF isENSName(s.input)
    THEN [issue(s, "resolveName") EXCEPT !.pc = "resolveName"]
    ELSE IF ~isAddress(trim(s.input))
         THEN [issue(s, "isAddress") EXCEPT
                  !.pc = "resolveThrown", !.thrown = Some(InvalidAddressMsg)]
         ELSE [issue(issue(s, "isAddress"), "lookupAddress") EXCEPT
                  !.pc = "lookupAddress",
                  !.address = Some(getAddress(trim(s.input)))]

\* the ENS branch of the resolver after its await, given a non-empty address
nameResolved_reverse(s, a) ==
    [issue(s, "lookupAddress") EXCEPT !.address = Some(a)]

nameResolved(s, a) == [s EXCEPT !.address = Some(a), !.ensName = Some(s.input)]

\* the token reads issued together with getBalance
awaitBalance_fanOut(s) ==
    [issue(issue(issue(issue(s, "getBalance"), "balanceOf"), "decimals"), "symbol")
        EXCEPT !.pc = "getBalance"]

\* handleSubmit from the resolved identity to the await of getBalance
awaitBalance(s) == [issue(s, "getBalance") EXCEPT !.pc = "getBalance"]

issueReads(s, fetches) ==
    LET n == Cardinality({k \in 1..Len(fetches) : fetches[k].contract # None})
    IN  [s EXCEPT !.calls["balanceOf"] = @ + n,
                  !.calls["decimals"] = @ + n,
                  !.calls["symbol"] = @ + n]

\* Promise.all over the token fetches: rejects with the first fetch that
\* rejects, and is suspended until every one has resolved
joinTokens(s) ==
    IF \E k \in 1..Len(s.fetches) : s.fetches[k].rejected
    THEN throw(s, "")
    ELSE IF \A k \in 1..Len(s.fetches) : s.fetches[k].result # None
         THEN [s EXCEPT !.pc = "done"]
         ELSE [s EXCEPT !.pc = "tokens"]

\* handleSubmit from the native balance to the await of the token fetches
awaitTokens(s, wei) ==
    LET fetches == [k \in 1..Len(TOKENS) |->
                        getTokenBalance(s.address[1], TOKENS[k].address)]
        settled(k) == ~fetchPending(fetches[k])
    IN  joinTokens([issueReads(s, fetches) EXCEPT
                        !.balance = Some(formatEther(wei)),
                        !.fetches = fetches,
                        !.order = SelectSeq([k \in 1..Len(TOKENS) |-> k], settled)])

\* the k-th token fetch of the invocation moves on to f
fetchSettles(s, k, f) ==
    [s EXCEPT !.fetches[k] = f,
              !.order = IF fetchPending(f) THEN @ ELSE Append(@, k)]

\* the invocations still running; a finished one is forgotten
running == [i \in 1..MaxSubs |-> IF InFlight(subs[i]) THEN subs[i] ELSE IdleSub]

freeSlot(i) ==
    /\ ~InFlight(subs[i])
    /\ \A j \in 1..MaxSubs : j < i => InFlight(subs[j])

\* the early return forgotten: the handler goes on to setIsLoading(true)
handleSubmitEmpty_loading ==
    /\ trim(walletInput) = <<>>
    /\ error' = EmptyInputMsg
    /\ isLoading' = TRUE
    /\ UNCHANGED <<walletInput, walletInfo>>

handleSubmitEmpty ==
    /\ trim(walletInput) = <<>>
    /\ error' = EmptyInputMsg
    /\ UNCHANGED <<walletInput, isLoading, walletInfo>>

\* the previous result kept when a new submission is accepted
handleSubmitAccepted_keepInfo(i) ==
    /\ trim(walletInput) # <<>>
    /\ freeSlot(i)
    /\ isLoading' = TRUE
    /\ error' = ""
    /\ subs' = [running EXCEPT ![i] =
                   resolveAddressAndENS([IdleSub EXCEPT !.input = trim(walletInput)])]
    /\ UNCHANGED <<walletInput, walletInfo>>

handleSubmitAccepted(i) ==
    /\ trim(walletInput) # <<>>
    /\ freeSlot(i)
    /\ isLoading' = TRUE
    /\ error' = ""
    /\ walletInfo' = None
    /\ subs' = [running EXCEPT ![i] =
                   resolveAddressAndENS([IdleSub EXCEPT !.input = trim(walletInput)])]
    /\ UNCHANGED walletInput

(* ---------------------- actions of the application --------------------- *)

ChangeInput ==
    /\ controlsEnabled
    /\ \E value \in Texts : value # walletInput /\ handleAddressChange(value)
    /\ subs' = running
    /\ event' = "change"
    /\ UNCHANGED <<tk, name, classified>>

SubmitEmpty ==
    /\ controlsEnabled
    /\ handleSubmitEmpty
    /\ subs' = running
    /\ event' = "submit"
    /\ UNCHANGED <<tk, name, classified>>

SubmitAccepted ==
    /\ controlsEnabled
    /\ \E i \in 1..MaxSubs : handleSubmitAccepted(i)
    /\ event' = "submit"
    /\ UNCHANGED <<tk, name, classified>>

\* the await of the resolver's promise, rejected by the validation throw
ResolveThrown(i) ==
    /\ subs[i].pc = "resolveThrown"
    /\ resume(i, throw(subs[i], subs[i].thrown[1]))
    /\ event' = "settle"
    /\ UNCHANGED <<tk, name, classified>>

ResolveNameResolves(i) ==
    /\ subs[i].pc = "resolveName"
    /\ \E a \in ResolvedAddrs :
          resume(i, awaitBalance(nameResolved(subs[i], a)))
    /\ event' = "settle"
    /\ UNCHANGED <<tk, name, classified>>

ResolveNameEmpty(i) ==
    /\ subs[i].pc = "resolveName"
    /\ resume(i, throw([subs[i] EXCEPT !.thrown = Some(UnresolvedMsg)], UnresolvedMsg))
    /\ event' = "settle"
    /\ UNCHANGED <<tk, name, classified>>

ResolveNameRejects(i) ==
    /\ subs[i].pc = "resolveName"
    /\ \E m \in ErrMessages : resume(i, throw([subs[i] EXCEPT !.thrown = Some(m)], m))
    /\ event' = "settle"
    /\ UNCHANGED <<tk, name, classified>>

LookupAddressResolves(i) ==
    /\ subs[i].pc = "lookupAddress"
    /\ \E n \in {None} \cup {Some(x) : x \in LookupNames} :
          resume(i, awaitBalance([subs[i] EXCEPT !.ensName = n]))
    /\ event' = "settle"
    /\ UNCHANGED <<tk, name, classified>>

\* the inner try without its catch: the rejection ends the submission
LookupAddressRejects_throws(i) ==
    /\ subs[i].pc = "lookupAddress"
    /\ \E m \in ErrMessages : resume(i, throw([subs[i] EXCEPT !.thrown = Some(m)], m))
    /\ event' = "settle"
    /\ UNCHANGED <<tk, name, classified>>

LookupAddressRejects(i) ==
    /\ subs[i].pc = "lookupAddress"
    /\ resume(i, awaitBalance(subs[i]))
    /\ event' = "settle"
    /\ UNCHANGED <<tk, name, classified>>

GetBalanceResolves(i) ==
    /\ subs[i].pc = "getBalance"
    /\ \E wei \in WeiAmounts : resume(i, awaitTokens(subs[i], wei))
    /\ event' = "settle"
    /\ UNCHANGED <<tk, name, classified>>

GetBalanceRejects(i) ==
    /\ subs[i].pc = "getBalance"
    /\ \E m \in ErrMessages : resume(i, throw(subs[i], m))
    /\ event' = "settle"
    /\ UNCHANGED <<tk, name, classified>>

TokenReadResolves(i) ==
    /\ subs[i].pc = "tokens"
    /\ \E k \in 1..Len(subs[i].fetches), r \in ReadNames :
          /\ fetchPending(subs[i].fetches[k])
          /\ subs[i].fetches[k].reads[r].st = "pending"
          /\ \E v \in ReadValues(r) :
                resume(i, joinTokens(fetchSettles(subs[i], k,
                                        readResolves(subs[i].fetches[k], r, v))))
    /\ event' = "settle"
    /\ UNCHANGED <<tk, name, classified>>

TokenReadRejects(i) ==
    /\ subs[i].pc = "tokens"
    /\ \E k \in 1..Len(subs[i].fetches), r \in ReadNames :
          /\ fetchPending(subs[i].fetches[k])
          /\ subs[i].fetches[k].reads[r].st = "pending"
          /\ resume(i, joinTokens(fetchSettles(subs[i], k,
                                        readRejects(subs[i].fetches[k], r))))
    /\ event' = "settle"
    /\ UNCHANGED <<tk, name, classified>>

RpcSettles(i) ==
    \/ ResolveThrown(i)
    \/ ResolveNameResolves(i)
    \/ ResolveNameEmpty(i)
    \/ ResolveNameRejects(i)
    \/ LookupAddressResolves(i)
    \/ LookupAddressRejects(i)
    \/ GetBalanceResolves(i)
    \/ GetBalanceRejects(i)
    \/ TokenReadResolves(i)
    \/ TokenReadRejects(i)

InitUI ==
    /\ walletInput = <<>>
    /\ isLoading = FALSE
    /\ error = ""
    /\ walletInfo = None
    /\ subs = [i \in 1..MaxSubs |-> IdleSub]
    /\ event = "init"

Init ==
    /\ InitUI
    /\ tk = [called |-> FALSE, f |-> NoFetch]
    /\ name = <<>>
    /\ classified = None

Next ==
    \/ ChangeInput
    \/ SubmitEmpty
    \/ SubmitAccepted
    \/ \E i \in 1..MaxSubs : RpcSettles(i)

Spec == Init /\ [][Next]_vars

\* every RPC call the application issued settles, and every suspended
\* continuation is resumed
FairSpec == Spec /\ \A i \in 1..MaxSubs : WF_vars(RpcSettles(i))

(* ---------------------- getTokenBalance on its own --------------------- *)

TokenInputs == TextsOver(Alphabet, MaxTokenLen)

InitToken ==
    /\ InitUI
    /\ tk \in {[called |-> FALSE,
                f |-> [NoFetch EXCEPT !.tokenAddress = t, !.wallet = <<"A">>]] :
               t \in TokenInputs}
    /\ name = <<>>
    /\ classified = None

TokenCall ==
    /\ ~tk.called
    /\ tk' = [called |-> TRUE, f |-> getTokenBalance(tk.f.wallet, tk.f.tokenAddress)]
    /\ UNCHANGED <<uiVars, name, classified>>

TokenResolves ==
    /\ tk.called /\ fetchPending(tk.f)
    /\ \E r \in ReadNames :
          /\ tk.f.reads[r].st = "pending"
          /\ \E v \in ReadValues(r) : tk' = [tk EXCEPT !.f = readResolves(tk.f, r, v)]
    /\ UNCHANGED <<uiVars, name, classified>>

TokenRejects ==
    /\ tk.called /\ fetchPending(tk.f)
    /\ \E r \in ReadNames :
          /\ tk.f.reads[r].st = "pending"
          /\ tk' = [tk EXCEPT !.f = readRejects(tk.f, r)]
    /\ UNCHANGED <<uiVars, name, classified>>

NextToken == TokenCall \/ TokenResolves \/ TokenRejects

SpecToken == InitToken /\ [][NextToken]_vars

(* ---------------------- isENSName on its own --------------------------- *)

Names == TextsOver(NameAlphabet, MaxNameLen)

InitClassify ==
    /\ InitUI
    /\ tk = [called |-> FALSE, f |-> NoFetch]
    /\ name \in Names
    /\ classified = None

Classify ==
    /\ classified = None
    /\ classified' = Some(isENSName(name))
    /\ UNCHANGED <<uiVars, tk, name>>

NextClassify == Classify

SpecClassify == InitClassify /\ [][NextClassify]_vars

(* ---------------------- properties -------------------------------------- *)

anyInFlight == \E i \in 1..MaxSubs : InFlight(subs[i])

\* the invocation i has finished and nothing has happened since
finished(i) == subs[i].pc = "done"

noCalls(i) == \A c \in RpcNames : subs[i].calls[c] = 0

allReadsOk(f) == \A r \in ReadNames : f.reads[r].st = "ok"

\* C1: a submit with empty or whitespace-only input sets the error to the
\* fixed message, issues no external call, does not enter the loading state
\* and leaves walletInfo as it was
C1_EmptySubmit ==
    [][(event' = "submit" /\ trim(walletInput) = <<>>) =>
          /\ error' = "Please enter a wallet address or ENS Name"
          /\ ~isLoading'
          /\ walletInfo' = walletInfo
          /\ walletInput' = walletInput
          /\ \A i \in 1..MaxSubs : ~InFlight(subs'[i]) /\ noCalls(i)']_vars

C1_Witness ==
    /\ event = "submit"
    /\ walletInput # <<>>
    /\ trim(walletInput) = <<>>
    /\ error = EmptyInputMsg
    /\ ~isLoading

\* C2: getTokenBalance never rejects; it has resolved once the checksum step
\* failed or every read has settled; and when the checksum step failed or a
\* read failed the result is exactly {address: the tokenAddress argument,
\* balance: null, error: true}
C2_TokenErrorResult ==
    /\ ~tk.f.rejected
    /\ (tk.called /\ \A r \in ReadNames : tk.f.reads[r].st # "pending")
          => tk.f.result # None
    /\ (tk.called /\ (\/ ~getAddressAccepts(tk.f.tokenAddress)
                      \/ \E r \in ReadNames : tk.f.reads[r].st = "fail"))
          => tk.f.result =
                Some([address |-> tk.f.tokenAddress, balance |-> None, error |-> TRUE])

C2_Witness ==
    /\ tk.called
    /\ tk.f.tokenAddress # getAddress(tk.f.tokenAddress)
    /\ \E r \in ReadNames :
          /\ tk.f.reads[r].st = "fail"
          /\ \A q \in ReadNames \ {r} : tk.f.reads[q].st = "ok"
    /\ tk.f.result = Some(tokenError(tk.f.tokenAddress))

\* C3: once the identity is resolved and the native balance fetched, no
\* outcome of the token fetches sets the top-level error: the submission
\* stays free of errors while the fetches run and ends with walletInfo set;
\* each token's entry depends on its own reads only
C3_TokenErrorsContained ==
    \A i \in 1..MaxSubs :
        (subs[i].pc # "idle" /\ subs[i].balance # None) =>
            /\ subs[i].pc \in {"tokens", "done"}
            /\ subs[i].caught = None
            /\ error = ""
            /\ finished(i) =>
                  /\ ~isLoading
                  /\ walletInfo # None
                  /\ Len(walletInfo[1].tokenBalances) = Len(TOKENS)
                  /\ \A k \in 1..Len(TOKENS) :
                        IF allReadsOk(subs[i].fetches[k])
                        THEN /\ "error" \notin DOMAIN walletInfo[1].tokenBalances[k]
                             /\ walletInfo[1].tokenBalances[k].balance # None
                        ELSE /\ walletInfo[1].tokenBalances[k].error
                             /\ walletInfo[1].tokenBalances[k].balance = None

C3_Witness ==
    \E i \in 1..MaxSubs :
        /\ finished(i)
        /\ walletInfo # None
        /\ error = ""
        /\ ~allReadsOk(subs[i].fetches[1])
        /\ allReadsOk(subs[i].fetches[2])
        /\ "error" \notin DOMAIN walletInfo[1].tokenBalances[2]

\* the invocation i ended because getBalance rejected
balanceRejected(i) ==
    /\ finished(i)
    /\ subs[i].caught # None
    /\ subs[i].address # None
    /\ subs[i].balance = None
    /\ subs[i].calls["getBalance"] = 1

\* C4: when getBalance rejects with an error that carries a message M the
\* displayed error is M followed by the retry hint, and the generic message
\* is shown only when the error carries no message
C4_MessageFromError ==
    \A i \in 1..MaxSubs :
        balanceRejected(i) =>
            error = IF subs[i].caught[1] # ""
                    THEN subs[i].caught[1] \o ". Please try again later"
                    ELSE FailedMsg

\* C5: a submission of a non-empty input without '.' that fails the
\* address-format validation ends with the message of the validation error
C5_InvalidAddressMessage ==
    \A i \in 1..MaxSubs :
        (finished(i) /\ ~includes(subs[i].input, ".") /\ ~isAddress(subs[i].input))
            => error = "Please enter a valid ETH wallet address or ENS name"

\* C6: isLoading is true, the controls are disabled and the label is
\* 'Checking...' exactly while an accepted submission has not settled;
\* otherwise isLoading is false and the label is 'Check Wallet'
C6_LoadingIffInFlight ==
    /\ isLoading <=> anyInFlight
    /\ controlsEnabled <=> ~anyInFlight
    /\ buttonLabel = IF anyInFlight THEN "Checking..." ELSE "Check Wallet"

C6_Witness ==
    /\ isLoading
    /\ buttonLabel = "Checking..."
    /\ \E i \in 1..MaxSubs : subs[i].pc = "tokens"

\* C7: when every call that was issued settles, an accepted submission
\* leaves the loading state, and exactly one of a non-empty error and a
\* non-null walletInfo holds when it does
C7_EventuallySettles ==
    /\ anyInFlight ~> (/\ ~isLoading
                        /\ ~anyInFlight
                        /\ \E i \in 1..MaxSubs : finished(i))
    /\ [][(isLoading /\ ~isLoading') => ((error' # "") <=> (walletInfo' = None))]_vars

C7_Witness ==
    \E i \in 1..MaxSubs :
        /\ finished(i)
        /\ ~isLoading
        /\ subs[i].caught = Some(UnresolvedMsg)
        /\ error # ""
        /\ walletInfo = None

\* C8: an edit of the input while not loading replaces the input text and
\* leaves the error empty and walletInfo null, with isLoading unchanged
C8_EditReturnsToIdle ==
    [][event' = "change" =>
          /\ walletInput' # walletInput
          /\ walletInput' \in Texts
          /\ error' = ""
          /\ walletInfo' = None
          /\ isLoading' = isLoading]_vars

C8_Witness ==
    /\ event = "change"
    /\ walletInput # <<>>
    /\ error = ""
    /\ walletInfo = None
    /\ ~isLoading

\* C9: on the ENS path a successful submission shows the trimmed input as
\* ensName and the address forward resolution returned, and neither
\* lookupAddress nor isAddress is called on this path
C9_EnsPath ==
    \A i \in 1..MaxSubs :
        (subs[i].pc # "idle" /\ includes(subs[i].input, ".")) =>
            /\ subs[i].calls["lookupAddress"] = 0
            /\ subs[i].calls["isAddress"] = 0
            /\ (finished(i) /\ subs[i].caught = None) =>
                  /\ walletInfo # None
                  /\ walletInfo[1].ensName = Some(trim(walletInput))
                  /\ walletInfo[1].ensName = Some(subs[i].input)
                  /\ walletInfo[1].address = subs[i].address[1]
                  /\ walletInfo[1].address \in ResolvedAddrs

C9_Witness ==
    \E i \in 1..MaxSubs :
        /\ finished(i)
        /\ includes(subs[i].input, ".")
        /\ walletInput # subs[i].input
        /\ walletInfo # None
        /\ walletInfo[1].ensName = Some(subs[i].input)
        /\ walletInfo[1].address # getAddress(walletInfo[1].address)

\* C10: isENSName is true for every input with a '.', false for every input
\* without one, and the '.eth' suffix test does not change the result
C10_DotDecides ==
    classified # None =>
        /\ classified[1] = (\E j \in 1..Len(name) : name[j] = ".")
        /\ endsWith(name, DotEth) => classified[1]

C10_Witness ==
    /\ classified = Some(TRUE)
    /\ ~endsWith(name, DotEth)
    /\ Len(name) = MaxNameLen

\* the steps of the invocation i that end it
finishes(i) == InFlight(subs[i]) /\ subs'[i].pc = "done"

\* C11: walletInfo is null or a complete snapshot of one submission: its
\* address, ensName and balance are that submission's, it has one entry per
\* configured token, each the result of that submission's fetch, and every
\* fetch had completed; it becomes non-null only in the step that ends a
\* submission, once, and is never changed in place
C11_WholeSnapshot ==
    /\ [](walletInfo # None =>
            \E i \in 1..MaxSubs :
                /\ finished(i)
                /\ subs[i].caught = None
                /\ subs[i].address # None /\ subs[i].balance # None
                /\ DOMAIN walletInfo[1] = {"address", "ensName", "balance", "tokenBalances"}
                /\ walletInfo[1].address = subs[i].address[1]
                /\ walletInfo[1].ensName = subs[i].ensName
                /\ walletInfo[1].balance = subs[i].balance[1]
                /\ Len(walletInfo[1].tokenBalances) = Len(TOKENS)
                /\ \A k \in 1..Len(TOKENS) :
                      /\ subs[i].fetches[k].result # None
                      /\ walletInfo[1].tokenBalances[k] = subs[i].fetches[k].result[1])
    /\ [][walletInfo' # walletInfo =>
            \/ walletInfo' = None
            \/ /\ walletInfo = None
               /\ \E i \in 1..MaxSubs : finishes(i) /\ subs[i].pc \in {"getBalance", "tokens"}]_vars

C11_Witness ==
    /\ walletInfo # None
    /\ event = "settle"
    /\ Len(walletInfo[1].tokenBalances) = 2
    /\ walletInfo[1].ensName = None
    /\ walletInfo[1].tokenBalances[1].balance = None
    /\ walletInfo[1].tokenBalances[2].balance # None

readsIssued(i) == \E r \in ReadNames : subs[i].calls[r] > 0

\* C12: a stage issues its calls only after the stage before it succeeded.
\* An input without '.' that fails validation issues no RPC call; a name
\* whose forward resolution returns nothing issues no getBalance and no
\* token read; a rejected getBalance issues no token read; and each of
\* these submissions ends with the error set and walletInfo null
C12_StagesInOrder ==
    \A i \in 1..MaxSubs :
        /\ subs[i].calls["getBalance"] > 0 => subs[i].address # None
        /\ readsIssued(i) => subs[i].balance # None
        /\ (subs[i].pc # "idle" /\ ~includes(subs[i].input, ".")
               /\ ~isAddress(subs[i].input)) => noCalls(i)
        /\ subs[i].thrown = Some(UnresolvedMsg) =>
              subs[i].calls["getBalance"] = 0 /\ ~readsIssued(i)
        /\ balanceRejected(i) => ~readsIssued(i)
        /\ (finished(i) /\ (subs[i].address = None \/ subs[i].balance = None)) =>
              /\ subs[i].caught # None
              /\ error # ""
              /\ walletInfo = None
              /\ ~isLoading

C12_Witness ==
    \E i \in 1..MaxSubs :
        /\ finished(i)
        /\ subs[i].thrown = Some(InvalidAddressMsg)
        /\ subs[i].calls["isAddress"] = 1
        /\ noCalls(i)
        /\ error # ""
        /\ walletInfo = None

\* the invocation i took the address branch of the resolver
addressPath(i) ==
    /\ subs[i].pc \notin {"idle", "resolveThrown"}
    /\ ~includes(subs[i].input, ".")
    /\ isAddress(subs[i].input)

\* C13: on the address path the settling of the reverse lookup, whether it
\* rejects, returns nothing or returns a name, is never an error: the
\* submission goes on to getBalance, exactly as it does with a name apart
\* from ensName, which is null when no name came back; the only error such
\* a submission can end with is the one of getBalance
C13_ReverseLookupBestEffort ==
    /\ [][\A i \in 1..MaxSubs :
            (subs[i].pc = "lookupAddress" /\ subs'[i] # subs[i]) =>
                /\ subs'[i] = [awaitBalance(subs[i]) EXCEPT !.ensName = subs'[i].ensName]
                /\ subs'[i].ensName \in {None} \cup {Some(x) : x \in LookupNames}
                /\ subs'[i].pc = "getBalance"
                /\ subs'[i].caught = None /\ subs'[i].thrown = None
                /\ error' = "" /\ isLoading']_vars
    /\ [](\A i \in 1..MaxSubs :
            (addressPath(i) /\ finished(i)) =>
                /\ subs[i].thrown = None
                /\ subs[i].calls["lookupAddress"] = 1
                /\ IF subs[i].caught # None
                   THEN balanceRejected(i)
                   ELSE walletInfo # None /\ walletInfo[1].ensName = subs[i].ensName)

C13_Witness ==
    \E i \in 1..MaxSubs :
        /\ addressPath(i)
        /\ finished(i)
        /\ subs[i].ensName = None
        /\ walletInfo # None
        /\ walletInfo[1].ensName = None
        /\ walletInfo[1].address = getAddress(subs[i].input)

\* C14: whatever the order in which the token fetches complete, the i-th
\* entry of walletInfo.tokenBalances is the result of the fetch for the i-th
\* token of TOKENS
C14_TokenListOrder ==
    \A i \in 1..MaxSubs :
        (finished(i) /\ walletInfo # None) =>
            /\ Len(subs[i].order) = Len(TOKENS)
            /\ \A k \in 1..Len(TOKENS) :
                  /\ subs[i].fetches[k].tokenAddress = TOKENS[k].address
                  /\ walletInfo[1].tokenBalances[k] = subs[i].fetches[k].result[1]
                  /\ walletInfo[1].tokenBalances[k].address
                        \in {TOKENS[k].address, getAddress(TOKENS[k].address)}

C14_Witness ==
    \E i \in 1..MaxSubs :
        /\ finished(i)
        /\ walletInfo # None
        /\ subs[i].order = <<2, 1>>
        /\ walletInfo[1].tokenBalances[1].address = TOKENS[1].address
        /\ walletInfo[1].tokenBalances[2].address = TOKENS[2].address

\* C15 as stated: the token fetches are issued together with the
\* native-balance fetch, so token reads are in flight while getBalance is
\* pending
C15_FanOutWithBalance ==
    \A i \in 1..MaxSubs : subs[i].pc = "getBalance" => readsIssued(i)

\* C15 as amended: no token read is issued while getBalance is pending; the
\* reads are issued after getBalance has resolved, all of them together, and
\* the token fetches are then in flight side by side
C15_TokensAfterBalance ==
    \A i \in 1..MaxSubs :
        /\ subs[i].pc = "getBalance" =>
              /\ ~readsIssued(i)
              /\ subs[i].fetches = <<>>
              /\ subs[i].balance = None
        /\ subs[i].pc = "tokens" =>
              /\ subs[i].balance # None
              /\ Len(subs[i].fetches) = Len(TOKENS)
              /\ \A r \in ReadNames : subs[i].calls[r] = Len(TOKENS)
        /\ readsIssued(i) => subs[i].calls["getBalance"] = 1 /\ subs[i].balance # None

C15_Witness ==
    \E i \in 1..MaxSubs :
        /\ subs[i].pc = "tokens"
        /\ fetchPending(subs[i].fetches[1])
        /\ fetchPending(subs[i].fetches[2])
        /\ subs[i].fetches[1].reads["balanceOf"].st = "pending"
        /\ subs[i].fetches[2].reads["balanceOf"].st = "ok"
        /\ subs[i].fetches[1].reads["symbol"].st = "ok"

\* C16 as stated: while a submission is in flight the user can submit again
C16_ResubmitWhileInFlight == anyInFlight => ENABLED SubmitAccepted

\* C16 as amended: a submission in flight is never cancelled: only the
\* settling of its own calls moves it, it keeps its input, and the step
\* that ends it writes error, walletInfo and isLoading from its own
\* outcome; no other submission exists when it ends, so no result of an
\* older submission overwrites that of a newer one
C16_NoCancelNoOverwrite ==
    [][\A i \in 1..MaxSubs :
          InFlight(subs[i]) =>
              /\ subs'[i].pc # "idle"
              /\ subs'[i].input = subs[i].input
              /\ subs'[i] # subs[i] => event' = "settle"
              /\ finishes(i) =>
                    /\ ~isLoading'
                    /\ IF subs'[i].caught # None
                       THEN error' # "" /\ walletInfo' = None
                       ELSE error' = "" /\ walletInfo' = Some(snapshot(subs'[i]))
                    /\ \A j \in 1..MaxSubs \ {i} : subs[j].pc = "idle" /\ subs'[j].pc = "idle"]_vars

C16_Witness ==
    \E i \in 1..MaxSubs :
        /\ finished(i)
        /\ event = "settle"
        /\ subs[i].caught = Some("Network error")
        /\ subs[i].calls["resolveName"] = 1
        /\ subs[i].calls["getBalance"] = 1
        /\ ~isLoading

\* the calls to the RPC client the resolver of the invocation i has issued
resolverCalls(i) == subs[i].calls["resolveName"] + subs[i].calls["lookupAddress"]

\* C17 as stated: every invocation of the resolver issues one or two calls
\* to the RPC client
C17_OneOrTwoCalls ==
    \A i \in 1..MaxSubs : subs[i].pc # "idle" => resolverCalls(i) \in {1, 2}

\* C17 as amended: every invocation of the resolver issues at most one call
\* to the RPC client: resolveName alone on the ENS path, lookupAddress alone
\* on the address path when the address is valid, and none when the address
\* fails validation
C17_AtMostOneCall ==
    \A i \in 1..MaxSubs :
        subs[i].pc # "idle" =>
            IF includes(subs[i].input, ".")
            THEN subs[i].calls["resolveName"] = 1 /\ subs[i].calls["lookupAddress"] = 0
            ELSE /\ subs[i].calls["resolveName"] = 0
                 /\ subs[i].calls["lookupAddress"] = IF isAddress(subs[i].input) THEN 1 ELSE 0

C17_Witness ==
    \E i \in 1..MaxSubs :
        /\ finished(i)
        /\ addressPath(i)
        /\ subs[i].ensName # None
        /\ resolverCalls(i) = 1
        /\ walletInfo # None

\* C18: in no reachable state are the error non-empty and walletInfo
\* non-null together, so neither the 'Wallet Information' panel nor the
\* 'Token Balances' panel is shown together with an error message
C18_ErrorExcludesResult ==
    /\ ~(error # "" /\ walletInfo # None)
    /\ errorShown => ~walletPanelShown /\ ~tokenPanelShown
    /\ walletInfo # None => walletPanelShown /\ tokenPanelShown /\ ~errorShown

C18_Witness ==
    /\ tokenPanelShown
    /\ walletPanelShown
    /\ ~errorShown
    /\ \A k \in 1..Len(TOKENS) : walletInfo[1].tokenBalances[k].balance = None

inFlightSet == {i \in 1..MaxSubs : InFlight(subs[i])}

\* C19: at most one submission is in flight at any time: while one is,
\* isLoading is true, and every step is the settling of one of its
\* calls; no submit and no edit of the input happens before it has settled
C19_OneInFlight ==
    /\ [](/\ Cardinality(inFlightSet) <= 1
          /\ anyInFlight => isLoading)
    /\ [][anyInFlight =>
            /\ event' = "settle"
            /\ walletInput' = walletInput
            /\ inFlightSet' \subseteq inFlightSet]_vars

C19_Witness ==
    /\ Cardinality(inFlightSet) = 1
    /\ ~controlsEnabled
    /\ event = "settle"
    /\ \E i \in inFlightSet : subs[i].pc = "getBalance" /\ subs[i].ensName = None

\* the submission whose snapshot is on display
shownSubmission(i) ==
    /\ finished(i)
    /\ subs[i].caught = None
    /\ walletInfo = Some(snapshot(subs[i]))

\* C20: whenever walletInfo is non-null it is the snapshot of a finished
\* submission whose trimmed input is the trimmed text now in the input box:
\* the name shown is that text on the ENS path, the address shown is its
\* checksummed form on the address path
C20_ResultMatchesInput ==
    walletInfo # None =>
        \E i \in 1..MaxSubs :
            /\ shownSubmission(i)
            /\ subs[i].input = trim(walletInput)
            /\ IF isENSName(trim(walletInput))
               THEN walletInfo[1].ensName = Some(trim(walletInput))
               ELSE walletInfo[1].address = getAddress(trim(walletInput))

C20_Witness ==
    /\ walletInfo # None
    /\ walletInput # trim(walletInput)
    /\ \E i \in 1..MaxSubs : shownSubmission(i) /\ subs[i].input = trim(walletInput)

====
